---- MODULE Spec2Model ----
(***************************************************************************)
(* filet: a full-screen terminal directory browser (src/filet.c).          *)
(*                                                                         *)
(* The model follows main()'s event loop key by key, read_dir() with its   *)
(* filter, classification and sort, spawn() with the forked child running  *)
(* beside the parent, the SIGWINCH handler, and the terminal (termios      *)
(* attributes, screen modes, the stdout buffer).                           *)
(*                                                                         *)
(* Strings are sequences of one-character strings; Byte gives the byte     *)
(* value strcmp compares.                                                  *)
(***************************************************************************)
EXTENDS Integers, Sequences, FiniteSets, TLC

VARIABLES
    pc,             \* where the parent process is (see Init)
    path,           \* the PATH_MAX buffer `path`, as a string
    show_hidden,    \* main: show_hidden
    sel,            \* main: sel
    ents,           \* main: ents[0..n-1], the current Listing (n == Len(ents))
    ents_size,      \* main: ents_size, the capacity of ents
    last_dir,       \* main: last_dir, the open DIR (a directory id) or NULL
    fs,             \* the filesystem: directory id -> set of members
    tty,            \* the terminal's current termios attributes (set flags)
    g_old_termios,  \* static g_old_termios
    screen,         \* the terminal's screen modes
    outbuf,         \* the parent's unflushed stdout (mode sequences only)
    g_row, g_col,   \* static g_row, g_col
    hooked,         \* atexit(restore_terminal) has been registered
    child,          \* the forked child: none/forked/running/stopped/exited/signaled
    status,         \* spawn: what waitpid last stored in status
    origAttrs,      \* ghost: the attributes the terminal had at program start
    lastKey,        \* ghost: the key the last loop iteration read
    fetched,        \* ghost: the last loop iteration ran read_dir
    forkRes,        \* ghost: outcome of the last iteration's fork ("none" if no fork)
    hookRan,        \* ghost: restore_terminal ran as the exit hook
    rawEntered,     \* ghost: setup_terminal succeeded at startup
    streak,         \* ghost: the run of '.' keys the last key ended (see Toggled)
    cur_row,        \* the terminal's cursor row (1-based) once stdout is flushed
    handles         \* the DIR streams: how many are open, whether the one
                    \* last_dir points to is open, whether a closed one was used

vars == <<pc, path, show_hidden, sel, ents, ents_size, last_dir, fs, tty,
          g_old_termios, screen, outbuf, g_row, g_col, hooked,
          child, status, origAttrs, lastKey, fetched, forkRes, hookRan,
          rawEntered, streak, cur_row, handles>>

NULL == "NULL"

-----------------------------------------------------------------------------
(* Strings and bytes *)

\* the byte value of each character the model uses (ASCII)
Byte(c) ==
    CASE c = "." -> 46
      [] c = "/" -> 47
      [] c = "A" -> 65
      [] c = "B" -> 66
      [] c = "L" -> 76
      [] c = "a" -> 97
      [] c = "b" -> 98
      [] c = "c" -> 99
      [] c = "d" -> 100
      [] c = "h" -> 104
      [] c = "n" -> 110

\* the byte at C index i of the NUL-terminated string s (0 is the terminator)
At(s, i) == IF i < Len(s) THEN Byte(s[i + 1]) ELSE 0

RECURSIVE strcmp(_, _)
\* libc strcmp: the difference of the first differing bytes
strcmp(a, b) ==
    IF At(a, 0) # At(b, 0) THEN At(a, 0) - At(b, 0)
    ELSE IF At(a, 0) = 0 THEN 0
    ELSE strcmp(Tail(a), Tail(b))

-----------------------------------------------------------------------------
(* read_dir *)

ENT_ALLOC_NUM == 2   \* 64 in the source; scaled so that model directories outgrow it

DirIds == {"root", "b"}   \* the directories of the model filesystem

IsDirType(t) == t = "TYPE_DIR" \/ t = "TYPE_SYML_TO_DIR"

\* direlemcmp with only TYPE_DIR counted as a directory
direlemcmp_dir_only(a, b) ==
    LET a_is_dir == a.type = "TYPE_DIR"
        b_is_dir == b.type = "TYPE_DIR"
    IN  IF a_is_dir # b_is_dir
        THEN (IF a_is_dir THEN -1 ELSE 1)
        ELSE strcmp(a.d_name, b.d_name)

\* direlemcmp: directories first, then strcmp of the names
direlemcmp(a, b) ==
    LET a_is_dir == IsDirType(a.type)
        b_is_dir == IsDirType(b.type)
    IN  IF a_is_dir # b_is_dir
        THEN (IF a_is_dir THEN -1 ELSE 1)
        ELSE strcmp(a.d_name, b.d_name)

RECURSIVE SortInsert(_, _)
SortInsert(e, s) ==
    IF s = <<>> THEN <<e>>
    ELSE IF direlemcmp(e, Head(s)) <= 0 THEN <<e>> \o s
    ELSE <<Head(s)>> \o SortInsert(e, Tail(s))

\* qsort leaving the array in readdir's order
qsort_unsorted(s) == s

RECURSIVE qsort(_)
\* qsort(*ents, n, sizeof(**ents), direlemcmp): the array ordered by direlemcmp
qsort(s) == IF s = <<>> THEN <<>> ELSE SortInsert(Head(s), qsort(Tail(s)))

\* the directory d still has a name in filesystem f (the root always has)
Exists(f, d) ==
    \/ d = "root"
    \/ \E x \in DirIds : \E m \in f[x] : m.fmt = "DIR" /\ m.to = d

\* the type read_dir assigns from the two fstatat results on filesystem f
Classify(f, m) ==
    IF m.fmt = "DIR" THEN "TYPE_DIR"
    ELSE IF m.fmt = "LNK"
         THEN (IF Exists(f, m.to) THEN "TYPE_SYML_TO_DIR" ELSE "TYPE_SYML")
    ELSE IF m.xusr THEN "TYPE_EXEC"
    ELSE "TYPE_NORM"

\* name is "." or ".."
IsDotOrDotDot(name) ==
    At(name, 0) = 46 /\ (At(name, 1) = 0 \/ (At(name, 1) = 46 /\ At(name, 2) = 0))

\* the skip test without the "." / ".." case
Skipped_no_dots(m, hid) ==
    \/ (~hid /\ At(m.name, 0) = 46)
    \/ ~m.statok

\* the readdir entry is skipped before it is stored
Skipped(m, hid) ==
    \/ IsDotOrDotDot(m.name)
    \/ (~hid /\ At(m.name, 0) = 46)
    \/ ~m.statok

RECURSIVE ReadLoop(_, _, _, _, _, _)
\* the while ((ent = readdir(dir))) loop over the entries in readdir's order;
\* allocOK is whether realloc succeeds when the array must grow
ReadLoop(f, rest, acc, size, hid, allocOK) ==
    IF rest = <<>> THEN [ents |-> acc, size |-> size, abort |-> FALSE]
    ELSE LET m == Head(rest) IN
         IF Skipped(m, hid) THEN ReadLoop(f, Tail(rest), acc, size, hid, allocOK)
         ELSE IF Len(acc) = size /\ ~allocOK
              THEN [ents |-> acc, size |-> size + ENT_ALLOC_NUM, abort |-> TRUE]
         ELSE ReadLoop(f, Tail(rest),
                       Append(acc, [d_name |-> m.name, type |-> Classify(f, m)]),
                       IF Len(acc) = size THEN size + ENT_ALLOC_NUM ELSE size,
                       hid, allocOK)

\* every order in which readdir may return the members of a directory
Orders(S) ==
    {o \in [1..Cardinality(S) -> S] : \A i, j \in 1..Cardinality(S) : i # j => o[i] # o[j]}

\* read_dir on the opened directory dir (NULL when opendir failed)
read_dir(f, dir, size, hid, order, allocOK) ==
    IF dir = NULL
    THEN [ents |-> <<>>, size |-> size, abort |-> FALSE]
    ELSE LET r == ReadLoop(f, order, <<>>, size, hid, allocOK)
         IN  IF r.abort THEN r ELSE [r EXCEPT !.ents = qsort(r.ents)]

\* no DIR stream has been opened yet
NoHandles == [open |-> 0, live |-> FALSE, misuse |-> FALSE]

\* read_dir without lines 170-172: the previous stream is never closed
CloseLast_never(h, ld) == h

\* read_dir, lines 170-172: if (*last_dir) closedir(*last_dir); closing a stream
\* that is not open is a misuse
CloseLast(h, ld) ==
    IF ld = NULL THEN h
    ELSE [open   |-> IF h.live THEN h.open - 1 ELSE h.open,
          live   |-> FALSE,
          misuse |-> h.misuse \/ ~h.live]

\* read_dir, lines 173-174: dir = opendir(path); *last_dir = dir
OpenNew(h, dir) ==
    [open   |-> IF dir # NULL THEN h.open + 1 ELSE h.open,
     live   |-> dir # NULL,
     misuse |-> h.misuse]

\* an entry's d_name (a pointer into the stream's buffer) or dirfd(last_dir) is
\* used: a misuse unless the stream last_dir points to is open
UseHandle(h) == [h EXCEPT !.misuse = @ \/ ~h.live]

-----------------------------------------------------------------------------
(* Paths and the filesystem *)

Cwd == "root"   \* the directory relative paths are resolved from

RECURSIVE LastSlash(_, _)
\* strrchr / memrchr: the last index <= upto holding '/', 0 if there is none
LastSlash(p, upto) ==
    IF upto = 0 THEN 0
    ELSE IF p[upto] = "/" THEN upto
    ELSE LastSlash(p, upto - 1)

RECURSIVE RunBack(_, _)
\* for (runp = i; runp != path; --runp) if (runp[-1] != '/') break;
RunBack(p, i) ==
    IF i = 1 THEN 1
    ELSE IF p[i - 1] # "/" THEN i
    ELSE RunBack(p, i - 1)

\* what dirname(path) leaves in the buffer it is given (the return value is
\* discarded by the caller): the string is cut in place at the last component,
\* and left alone when it holds no '/'
dirname(p) ==
    LET ls0 == LastSlash(p, Len(p))
        ls1 == IF ls0 # 0 /\ ls0 # 1 /\ ls0 = Len(p)
               THEN (LET r == RunBack(p, ls0)
                     IN  IF r # 1 THEN LastSlash(p, r - 1) ELSE ls0)
               ELSE ls0
    IN  IF ls1 = 0 THEN p
        ELSE LET r   == RunBack(p, ls1)
                 cut == IF r = 1 THEN (IF ls1 = 2 THEN 3 ELSE 2) ELSE r
             IN  SubSeq(p, 1, IF cut - 1 > Len(p) THEN Len(p) ELSE cut - 1)

\* case 'l': strcat(path, "/") unless path[1] == '\0', then strcat(path, name)
EnterPath(p, name) == (IF Len(p) # 1 THEN Append(p, "/") ELSE p) \o name

RECURSIVE Components(_, _)
\* the components of a path string, split at '/'
Components(p, cur) ==
    IF p = <<>> THEN (IF cur = <<>> THEN <<>> ELSE <<cur>>)
    ELSE IF Head(p) = "/"
         THEN (IF cur = <<>> THEN <<>> ELSE <<cur>>) \o Components(Tail(p), <<>>)
    ELSE Components(Tail(p), Append(cur, Head(p)))

RECURSIVE Walk(_, _, _)
\* path resolution, following symbolic links to directories
Walk(f, dir, comps) ==
    IF comps = <<>> THEN dir
    ELSE IF Head(comps) = <<".">> THEN Walk(f, dir, Tail(comps))
    ELSE LET hit == {m \in f[dir] : m.name = Head(comps)} IN
         IF hit = {} THEN NULL
         ELSE LET m == CHOOSE x \in hit : TRUE IN
              IF m.fmt = "DIR" \/ (m.fmt = "LNK" /\ Exists(f, m.to))
              THEN Walk(f, m.to, Tail(comps))
              ELSE NULL

\* opendir(path) (and the child's chdir(path)): the directory or NULL
opendir(f, p) ==
    IF p = <<>> THEN NULL
    ELSE Walk(f, IF Head(p) = "/" THEN "root" ELSE Cwd, Components(p, <<>>))

Member(name, fmt, xusr, to) ==
    [name |-> name, fmt |-> fmt, xusr |-> xusr, to |-> to, statok |-> TRUE]

\* the filesystem the browser is started on
Fs0 ==
    [d \in DirIds |->
        CASE d = "root" -> { Member(<<"b">>, "DIR", TRUE, "b"),
                             Member(<<"L">>, "LNK", TRUE, "b"),
                             Member(<<".", "h">>, "REG", TRUE, "none") }
          [] d = "b"    -> {} ]

\* unlinkat(dirfd(last_dir), name, AT_REMOVEDIR or 0): the filesystem afterwards
unlinkat(f, dir, name, removedir) ==
    LET hit == {m \in f[dir] : m.name = name} IN
    IF hit = {} THEN f
    ELSE LET m == CHOOSE x \in hit : TRUE IN
         IF removedir
         THEN (IF m.fmt = "DIR" /\ f[m.to] = {}
               THEN [f EXCEPT ![dir] = @ \ {m}] ELSE f)
         ELSE (IF m.fmt # "DIR" THEN [f EXCEPT ![dir] = @ \ {m}] ELSE f)

PATH_MAX == 6   \* 4096 in <limits.h>; scaled so that model paths outgrow the buffer

Home == <<"/", "b">>        \* getenv_or("HOME", "/")
StartPaths == {<<"/">>, <<"/", "b">>}   \* getcwd() or argv[1]

\* a filesystem whose root holds a symbolic link to the root itself, and whose
\* directory b is not empty
FsNav ==
    [d \in DirIds |->
        CASE d = "root" -> { Member(<<"b">>, "DIR", TRUE, "b"),
                             Member(<<"L">>, "LNK", TRUE, "root") }
          [] d = "b"    -> { Member(<<"c">>, "REG", FALSE, "none") } ]

\* getcwd(), or argv[1] copied as given: "/", "." and "b" (relative to Cwd)
NavStartPaths == {<<"/">>, <<".">>, <<"b">>}

-----------------------------------------------------------------------------
(* The terminal *)

AllFlags == {"ECHO", "ICANON", "OPOST", "ISIG"}
RawOff   == {"ECHO", "ICANON", "OPOST"}     \* the flags setup_terminal clears
\* attributes a child program may leave the terminal with
ChildAttrs == {AllFlags, AllFlags \ {"ECHO"}}

Sizes == {[row |-> 5, col |-> 20], [row |-> 6, col |-> 30]}

MainScreen == [alt |-> FALSE, wrap |-> TRUE, cursor |-> TRUE, region |-> 0]

SetupSeq(row) == [seq |-> "setup", row |-> row]
RestoreSeq    == [seq |-> "restore", row |-> 0]

\* the effect of one buffered sequence group on the screen modes
ApplySeq(scr, s) ==
    IF s.seq = "setup"
    THEN [alt |-> TRUE, wrap |-> FALSE, cursor |-> FALSE, region |-> s.row]
    ELSE [alt |-> FALSE, wrap |-> TRUE, cursor |-> TRUE, region |-> 0]

RECURSIVE Flush(_, _)
\* fflush(stdout): the buffered sequences reach the terminal in order
Flush(scr, out) == IF out = <<>> THEN scr ELSE Flush(ApplySeq(scr, Head(out)), Tail(out))

\* ESC [ r ; 1 H: the cursor goes to row r, held inside the screen; the screen
\* has the g_row rows the last TIOCGWINSZ reported
CursorTo(r) == IF r < 1 THEN 1 ELSE IF r > g_row THEN g_row ELSE r

\* "\n" with OPOST off: one row down; at the bottom of the scroll region
\* (ESC [ 3 ; g_row r, as last set up) the region scrolls and the cursor stays
LineFeed(r) == IF r = screen.region \/ r >= g_row THEN r ELSE r + 1

\* ESC [ A: one row up, stopping at the top of the scroll region (row 3)
CursorUp(r) == IF r = 3 \/ r = 1 THEN r ELSE r - 1

\* get_term_size: g_row, g_col after ioctl(TIOCGWINSZ) reports w, or fails
get_term_size(w, ok) == IF ok THEN <<w.row, w.col>> ELSE <<g_row, g_col>>

IsRaw(t) == t \cap RawOff = {}

\* restore_terminal: tcsetattr(g_old_termios) now, the sequences into stdout
restore_terminal(gold, out) == [tty |-> gold, out |-> Append(out, RestoreSeq)]

\* setup_terminal: tcgetattr into g_old_termios, tcsetattr(raw), sequences into stdout
setup_terminal(t, row, out) ==
    [gold |-> t, tty |-> t \ RawOff, out |-> Append(out, SetupSeq(row))]

-----------------------------------------------------------------------------
(* The parent process: startup *)

\* the last key was not '.'
NoStreak == [n |-> 0, ents |-> <<>>, hid |-> FALSE]

\* one more '.' key: the first or second of a pair of successive toggles, with
\* the Listing and show_hidden as they were before the pair's first toggle
Toggled ==
    IF streak.n = 1
    THEN [streak EXCEPT !.n = 2]
    ELSE [n |-> 1, ents |-> ents, hid |-> show_hidden]

Init ==
    /\ pc = "start"
    /\ path \in StartPaths
    /\ show_hidden = FALSE
    /\ sel = 0
    /\ ents = <<>>
    /\ ents_size = ENT_ALLOC_NUM
    /\ last_dir = NULL
    /\ fs = Fs0
    /\ tty = AllFlags
    /\ g_old_termios = {}
    /\ screen = MainScreen
    /\ outbuf = <<>>
    /\ g_row = 0
    /\ g_col = 0
    /\ hooked = FALSE
    /\ child = "none"
    /\ status = "none"
    /\ origAttrs = AllFlags
    /\ lastKey = "none"
    /\ fetched = FALSE
    /\ forkRes = "none"
    /\ hookRan = FALSE
    /\ rawEntered = FALSE
    /\ streak = NoStreak
    /\ cur_row = 1
    /\ handles = NoHandles

\* exit(): the atexit hook (restore_terminal) if registered, then stdio is flushed.
\* t, gold, out are the attributes, g_old_termios and stdout buffer at the call.
Exit(t, gold, out) ==
    LET r == restore_terminal(gold, out) IN
    /\ pc' = "exited"
    /\ tty' = IF hooked THEN r.tty ELSE t
    /\ screen' = Flush(screen, IF hooked THEN r.out ELSE out)
    /\ outbuf' = <<>>
    /\ hookRan' = hooked

\* the top of the for (;;) loop with fetch_dir set: sel = 0, read_dir at path p
\* with show_hidden hid on filesystem f, the full redraw, fflush, and on to
\* getchar; exit(EXIT_FAILURE) when realloc fails inside read_dir
Refetch(f, p, hid, t, gold, out, h) ==
    LET dir == opendir(f, p) IN
    \E allocOK \in BOOLEAN :
    \E order \in Orders(IF dir = NULL THEN {} ELSE f[dir]) :
        LET r == read_dir(f, dir, ents_size, hid, order, allocOK) IN
        /\ fetched' = TRUE
        /\ sel' = 0
        /\ last_dir' = dir
        /\ handles' = OpenNew(CloseLast(h, last_dir), dir)
        /\ ents_size' = r.size
        /\ ents' = r.ents
        /\ cur_row' = IF r.abort THEN cur_row ELSE CursorTo(3)
        /\ IF r.abort
           THEN Exit(t, gold, out)
           ELSE /\ pc' = "getchar"
                /\ tty' = t
                /\ screen' = Flush(screen, out)
                /\ outbuf' = <<>>
                /\ hookRan' = hookRan

\* main, lines 344-357: get_term_size, signal(SIGWINCH), setup_terminal, atexit
Startup ==
    /\ pc = "start"
    /\ \E w \in Sizes : \E sizeOK, termOK \in BOOLEAN :
        /\ g_row' = get_term_size(w, sizeOK)[1]
        /\ g_col' = get_term_size(w, sizeOK)[2]
        /\ IF sizeOK /\ termOK
           THEN LET s == setup_terminal(tty, w.row, outbuf) IN
                /\ g_old_termios' = s.gold
                /\ tty' = s.tty
                /\ outbuf' = s.out
                /\ hooked' = TRUE
                /\ rawEntered' = TRUE
                /\ pc' = "status"
                /\ UNCHANGED <<screen, hookRan>>
           ELSE /\ Exit(tty, g_old_termios, outbuf)
                /\ UNCHANGED <<g_old_termios, hooked, rawEntered>>
    /\ UNCHANGED <<path, show_hidden, sel, ents, ents_size, last_dir, fs,
                   child, status, origAttrs, lastKey, fetched, forkRes,
                   streak, cur_row, handles>>

\* main, line 360 with user or hostname NULL (getlogin() returned NULL, or
\* gethostname failed and line 334 set hostname = NULL): strlen(NULL).
\* One outcome is the process dying of SIGSEGV: no atexit hook runs and the
\* unflushed stdout is lost.
StatusStringCrash ==
    /\ pc = "status"
    /\ \E userNull, hostNull \in BOOLEAN : userNull \/ hostNull
    /\ pc' = "killed"
    /\ outbuf' = <<>>
    /\ UNCHANGED <<path, show_hidden, sel, ents, ents_size, last_dir, fs, tty,
                   g_old_termios, screen, g_row, g_col, hooked, child,
                   status, origAttrs, lastKey, fetched, forkRes, hookRan, rawEntered,
                   streak, cur_row, handles>>

\* main, lines 359-364: malloc for the status string fails, exit(EXIT_FAILURE)
StatusStringAllocFail ==
    /\ pc = "status"
    /\ Exit(tty, g_old_termios, outbuf)
    /\ UNCHANGED <<path, show_hidden, sel, ents, ents_size, last_dir, fs,
                   g_old_termios, g_row, g_col, hooked, child, status,
                   origAttrs, lastKey, fetched, forkRes, rawEntered,
                   streak, cur_row, handles>>

\* main, lines 359-407: the status string is built and the loop's first iteration
\* runs (fetch_dir starts true)
StatusString ==
    /\ pc = "status"
    /\ Refetch(fs, path, show_hidden, tty, g_old_termios, outbuf, handles)
    /\ UNCHANGED <<path, show_hidden, fs, g_old_termios, g_row, g_col, 
                   hooked, child, status, origAttrs, lastKey, forkRes, rawEntered,
                   streak>>

-----------------------------------------------------------------------------
(* The parent process: one loop iteration per key *)

n == Len(ents)   \* main: n, the number of entries read_dir returned

\* the loop is blocked in getchar()
Reading == pc = "getchar"

\* what no key handler writes
KeyFrame == <<g_row, g_col, hooked, child, status, origAttrs, rawEntered>>

\* a handler that sets fetch_dir, followed by the next iteration's re-read;
\* f, p, hid, h are the filesystem, path, show_hidden and streams the handler leaves
StaleKey(c, f, p, hid, h) ==
    /\ lastKey' = c
    /\ streak' = IF c = "." THEN Toggled ELSE NoStreak
    /\ forkRes' = "none"
    /\ path' = p
    /\ show_hidden' = hid
    /\ fs' = f
    /\ Refetch(f, p, hid, tty, g_old_termios, outbuf, h)
    /\ UNCHANGED g_old_termios
    /\ UNCHANGED KeyFrame

\* a handler that leaves fetch_dir clear: only sel and the cursor may move (to s
\* and row r), then fflush, getchar; h is the streams after the handler's uses
MoveKey(c, s, r, h) ==
    /\ lastKey' = c
    /\ streak' = NoStreak
    /\ forkRes' = "none"
    /\ fetched' = FALSE
    /\ sel' = s
    /\ cur_row' = r
    /\ handles' = h
    /\ UNCHANGED <<pc, path, show_hidden, ents, ents_size, last_dir, fs, tty,
                   g_old_termios, screen, outbuf, hookRan>>
    /\ UNCHANGED KeyFrame

\* case 'h': dirname(path); fetch_dir = true
KeyUpDir == Reading /\ StaleKey("h", fs, dirname(path), show_hidden, handles)

\* case '~': strcpy(path, home); fetch_dir = true
KeyHome == Reading /\ StaleKey("~", fs, Home, show_hidden, handles)

\* case '/': strcpy(path, "/"); fetch_dir = true
KeyRoot == Reading /\ StaleKey("/", fs, <<"/">>, show_hidden, handles)

\* case '.': show_hidden = !show_hidden; fetch_dir = true
KeyToggleHidden == Reading /\ StaleKey(".", fs, path, ~show_hidden, handles)

\* case 'r' without fetch_dir = true
KeyRefresh_no_fetch == Reading /\ MoveKey("r", sel, cur_row, handles)

\* case 'r': fetch_dir = true
KeyRefresh == Reading /\ StaleKey("r", fs, path, show_hidden, handles)

\* case 'q': exit(EXIT_SUCCESS)
KeyQuit ==
    /\ Reading
    /\ lastKey' = "q"
    /\ streak' = NoStreak
    /\ forkRes' = "none"
    /\ fetched' = FALSE
    /\ Exit(tty, g_old_termios, outbuf)
    /\ UNCHANGED <<path, show_hidden, sel, ents, ents_size, last_dir, fs,
                   g_old_termios, cur_row, handles>>
    /\ UNCHANGED KeyFrame

\* if (n == 0) continue: the entry commands do nothing on an empty Listing
KeyOnEmpty ==
    /\ Reading
    /\ n = 0
    /\ \E c \in {"j", "k", "l", "g", "G", "e", "x"} : MoveKey(c, sel, cur_row, handles)

\* a key neither switch has a case for (EOF included)
KeyOther == Reading /\ MoveKey("?", sel, cur_row, handles)

\* case 'j' with the bound off by one: if (sel < n) ++sel
KeyDown_off_by_one ==
    /\ Reading
    /\ n > 0
    /\ IF sel < n
       THEN MoveKey("j", sel + 1, LineFeed(cur_row), UseHandle(handles))
       ELSE MoveKey("j", sel, cur_row, handles)

\* case 'j': if (sel < n - 1) the old line is redrawn, "\r\n", ++sel, the new
\* line is drawn
KeyDown ==
    /\ Reading
    /\ n > 0
    /\ IF sel < n - 1
       THEN MoveKey("j", sel + 1, LineFeed(cur_row), UseHandle(handles))
       ELSE MoveKey("j", sel, cur_row, handles)

\* case 'k': if (sel > 0) the old line is redrawn, "\r" ESC [ A, --sel, the new
\* line is drawn
KeyUp ==
    /\ Reading
    /\ n > 0
    /\ IF sel > 0
       THEN MoveKey("k", sel - 1, CursorUp(cur_row), UseHandle(handles))
       ELSE MoveKey("k", sel, cur_row, handles)

\* case 'g': ESC [ 3 ; 1 H, sel = 0
KeyTop == Reading /\ n > 0 /\ MoveKey("g", 0, CursorTo(3), UseHandle(handles))

\* case 'G' with sel = n
KeyBottom_past_end ==
    Reading /\ n > 0 /\ MoveKey("G", n, CursorTo(2 + n), UseHandle(handles))

\* the row case 'G' sends the cursor to:
\* 2 + (n < ((size_t)g_row - 3) ? n : (size_t)g_row)
BottomRow ==
    2 + (IF g_row < 3 \/ n < g_row - 3 THEN n ELSE g_row)

\* case 'G': ESC [ BottomRow ; 1 H, sel = n - 1
KeyBottom ==
    Reading /\ n > 0 /\ MoveKey("G", n - 1, CursorTo(BottomRow), UseHandle(handles))

\* the longest path string the model lets case 'l' build
MaxPathLen == 7

\* case 'l' on an entry of any type
KeyEnter_any_kind ==
    /\ Reading
    /\ n > 0
    /\ Len(EnterPath(path, ents[sel + 1].d_name)) <= MaxPathLen
    /\ StaleKey("l", fs, EnterPath(path, ents[sel + 1].d_name), show_hidden,
                UseHandle(handles))

\* case 'l': strcat "/" and the selected name to path when the entry is a
\* directory; nothing bounds the result by PATH_MAX
KeyEnter ==
    /\ Reading
    /\ n > 0
    /\ IF IsDirType(ents[sel + 1].type)
       THEN /\ Len(EnterPath(path, ents[sel + 1].d_name)) <= MaxPathLen
            /\ StaleKey("l", fs, EnterPath(path, ents[sel + 1].d_name),
                        show_hidden, UseHandle(handles))
       ELSE MoveKey("l", sel, cur_row, handles)

\* case 'x' always removing as a file: unlinkat(fd, name, 0)
KeyDelete_as_file ==
    /\ Reading
    /\ n > 0
    /\ StaleKey("x",
                unlinkat(fs, last_dir, ents[sel + 1].d_name, FALSE),
                path, show_hidden, UseHandle(handles))

\* case 'x': unlinkat(dirfd(last_dir), name, TYPE_DIR ? AT_REMOVEDIR : 0)
KeyDelete ==
    /\ Reading
    /\ n > 0
    /\ StaleKey("x",
                unlinkat(fs, last_dir, ents[sel + 1].d_name,
                         ents[sel + 1].type = "TYPE_DIR"),
                path, show_hidden, UseHandle(handles))

-----------------------------------------------------------------------------
(* spawn: the parent's side *)

\* fork() fails and spawn goes on as if it had not: no return on pid < 0
ForkFailed_no_return(c) ==
    /\ lastKey' = c
    /\ streak' = NoStreak
    /\ forkRes' = "failed"
    /\ fetched' = FALSE
    /\ pc' = "sp_restore"
    /\ UNCHANGED <<path, show_hidden, sel, ents, ents_size, last_dir, fs, tty,
                   g_old_termios, screen, outbuf, hookRan, cur_row, handles>>
    /\ UNCHANGED KeyFrame

\* fork() fails: spawn returns at once; the caller sets fetch_dir
ForkFailed(c) ==
    /\ lastKey' = c
    /\ streak' = NoStreak
    /\ forkRes' = "failed"
    /\ Refetch(fs, path, show_hidden, tty, g_old_termios, outbuf,
               IF c = "e" THEN UseHandle(handles) ELSE handles)
    /\ UNCHANGED <<path, show_hidden, fs, g_old_termios>>
    /\ UNCHANGED KeyFrame

\* fork() succeeds: the child exists, the parent goes on to restore_terminal
ForkOK(c) ==
    /\ lastKey' = c
    /\ streak' = NoStreak
    /\ forkRes' = "ok"
    /\ fetched' = FALSE
    /\ child' = "forked"
    /\ status' = "none"
    /\ pc' = "sp_restore"
    /\ handles' = IF c = "e" THEN UseHandle(handles) ELSE handles
    /\ UNCHANGED <<path, show_hidden, sel, ents, ents_size, last_dir, fs, tty,
                   g_old_termios, screen, outbuf, g_row, g_col, hooked,
                   origAttrs, hookRan, rawEntered, cur_row>>

\* spawn(path, cmd, argv1), line 240
spawn(c) == ForkFailed(c) \/ ForkOK(c)

\* case 's': spawn(path, shell, NULL)
KeySpawnShell == Reading /\ spawn("s")

\* case 'e': spawn(path, editor, ents[sel].d_name)
KeyEdit == Reading /\ n > 0 /\ spawn("e")

\* spawn, line 246, in the parent: restore_terminal()
ParentRestore ==
    /\ pc = "sp_restore"
    /\ LET r == restore_terminal(g_old_termios, outbuf) IN
        /\ tty' = r.tty
        /\ outbuf' = r.out
    /\ pc' = "sp_flush"
    /\ UNCHANGED <<path, show_hidden, sel, ents, ents_size, last_dir, fs,
                   g_old_termios, screen, g_row, g_col, hooked, child,
                   status, origAttrs, lastKey, fetched, forkRes, hookRan, rawEntered,
                   streak, cur_row, handles>>

\* spawn, line 247, in the parent: fflush(stdout)
ParentFlush ==
    /\ pc = "sp_flush"
    /\ screen' = Flush(screen, outbuf)
    /\ outbuf' = <<>>
    /\ pc' = "sp_wait"
    /\ UNCHANGED <<path, show_hidden, sel, ents, ents_size, last_dir, fs, tty,
                   g_old_termios, g_row, g_col, hooked, child, status,
                   origAttrs, lastKey, fetched, forkRes, hookRan, rawEntered,
                   streak, cur_row, handles>>

\* the wait loop ending on a stopped child: while (!WIFEXITED && !WIFSIGNALED
\* && !WIFSTOPPED)
WaitStopped_leaves ==
    /\ pc = "sp_wait"
    /\ child = "stopped"
    /\ status' = "stopped"
    /\ child' = "stopped_seen"
    /\ pc' = "sp_setup"
    /\ UNCHANGED <<path, show_hidden, sel, ents, ents_size, last_dir, fs, tty,
                   g_old_termios, screen, outbuf, g_row, g_col, hooked,
                   origAttrs, lastKey, fetched, forkRes, hookRan, rawEntered,
                   streak, cur_row, handles>>

\* waitpid(pid, &status, WUNTRACED) reports the child stopped: neither
\* WIFEXITED nor WIFSIGNALED, so the do-while calls waitpid again
WaitStopped ==
    /\ pc = "sp_wait"
    /\ child = "stopped"
    /\ status' = "stopped"
    /\ child' = "stopped_seen"
    /\ UNCHANGED <<pc, path, show_hidden, sel, ents, ents_size, last_dir, fs, tty,
                   g_old_termios, screen, outbuf, g_row, g_col, hooked,
                   origAttrs, lastKey, fetched, forkRes, hookRan, rawEntered,
                   streak, cur_row, handles>>

\* waitpid reports the child exited or killed by a signal: the loop ends
WaitTerminated ==
    /\ pc = "sp_wait"
    /\ child \in {"exited", "signaled"}
    /\ status' = child
    /\ child' = "none"
    /\ pc' = "sp_setup"
    /\ UNCHANGED <<path, show_hidden, sel, ents, ents_size, last_dir, fs, tty,
                   g_old_termios, screen, outbuf, g_row, g_col, hooked,
                   origAttrs, lastKey, fetched, forkRes, hookRan, rawEntered,
                   streak, cur_row, handles>>

\* waitpid fails (ECHILD: the child was reaped without a report, as when SIGCHLD
\* is ignored) after the child terminated: status is not written. A status no
\* waitpid has written yet is uninitialized, so the loop condition may come out
\* either way; a status left from a stop report repeats the loop.
WaitFailed ==
    /\ pc = "sp_wait"
    /\ child \in {"exited", "signaled"}
    /\ child' = "none"
    /\ pc' \in (IF status = "none" THEN {"sp_wait", "sp_setup"} ELSE {"sp_wait"})
    /\ UNCHANGED <<path, show_hidden, sel, ents, ents_size, last_dir, fs, tty,
                   g_old_termios, screen, outbuf, g_row, g_col, hooked, status,
                   origAttrs, lastKey, fetched, forkRes, hookRan, rawEntered,
                   streak, cur_row, handles>>

\* spawn, line 262: setup_terminal(); back in main fetch_dir = true and the next
\* iteration re-reads
SpawnReturn ==
    /\ pc = "sp_setup"
    /\ LET s == setup_terminal(tty, g_row, outbuf) IN
        /\ g_old_termios' = s.gold
        /\ Refetch(fs, path, show_hidden, s.tty, s.gold, s.out, handles)
    /\ status' = "none"
    /\ UNCHANGED <<path, show_hidden, fs, g_row, g_col, hooked, child,
                   origAttrs, lastKey, forkRes, rawEntered, streak>>

-----------------------------------------------------------------------------
(* spawn: the child's side *)

\* the child, lines 246-255: restore_terminal, fflush, chdir(path), execlp
ChildPreExec ==
    /\ child = "forked"
    /\ LET r == restore_terminal(g_old_termios, <<>>) IN
        /\ tty' = r.tty
        /\ screen' = Flush(screen, r.out)
    /\ \E execOK \in BOOLEAN :
        child' = IF opendir(fs, path) # NULL /\ execOK THEN "running" ELSE "exited"
    /\ UNCHANGED <<pc, path, show_hidden, sel, ents, ents_size, last_dir, fs,
                   g_old_termios, outbuf, g_row, g_col, hooked, status,
                   origAttrs, lastKey, fetched, forkRes, hookRan, rawEntered,
                   streak, cur_row, handles>>

\* the program the child runs changes the terminal attributes
ChildSetAttr ==
    /\ child = "running"
    /\ \E a \in ChildAttrs \ {tty} : tty' = a
    /\ UNCHANGED <<pc, path, show_hidden, sel, ents, ents_size, last_dir, fs,
                   g_old_termios, screen, outbuf, g_row, g_col, hooked,
                   child, status, origAttrs, lastKey, fetched, forkRes, hookRan,
                   rawEntered, streak, cur_row, handles>>

\* the child's state changes to c
ChildTo(c) ==
    /\ child' = c
    /\ UNCHANGED <<pc, path, show_hidden, sel, ents, ents_size, last_dir, fs, tty,
                   g_old_termios, screen, outbuf, g_row, g_col, hooked,
                   status, origAttrs, lastKey, fetched, forkRes, hookRan, rawEntered,
                   streak, cur_row, handles>>

\* the child is stopped (SIGTSTP, SIGSTOP)
ChildStop == child = "running" /\ ChildTo("stopped")

\* the stopped child is continued (SIGCONT)
ChildCont == child \in {"stopped", "stopped_seen"} /\ ChildTo("running")

\* the child's program exits
ChildExit == child = "running" /\ ChildTo("exited")

\* the child is killed by a signal
ChildKilled == child \in {"running", "stopped", "stopped_seen"} /\ ChildTo("signaled")

-----------------------------------------------------------------------------
(* SIGWINCH *)

\* the terminal is resized to w and SIGWINCH runs handle_winch on top of whatever
\* the process is doing: signal(sig, SIG_IGN); get_term_size(); signal(sig, handle_winch)
handle_winch ==
    /\ pc \notin {"start", "exited", "killed"}
    /\ \E w \in Sizes : \E ok \in BOOLEAN :
        /\ g_row' = get_term_size(w, ok)[1]
        /\ g_col' = get_term_size(w, ok)[2]
    /\ UNCHANGED <<pc, path, show_hidden, sel, ents, ents_size, last_dir, fs, tty,
                   g_old_termios, screen, outbuf, hooked, child, status,
                   origAttrs, lastKey, fetched, forkRes, hookRan, rawEntered,
                   streak, cur_row, handles>>

-----------------------------------------------------------------------------

Next ==
    \/ Startup
    \/ StatusStringCrash
    \/ StatusStringAllocFail
    \/ StatusString
    \/ KeyUpDir
    \/ KeyHome
    \/ KeyRoot
    \/ KeyToggleHidden
    \/ KeyRefresh
    \/ KeySpawnShell
    \/ KeyQuit
    \/ KeyOnEmpty
    \/ KeyOther
    \/ KeyDown
    \/ KeyUp
    \/ KeyTop
    \/ KeyBottom
    \/ KeyEnter
    \/ KeyEdit
    \/ KeyDelete
    \/ ParentRestore
    \/ ParentFlush
    \/ WaitStopped
    \/ WaitTerminated
    \/ WaitFailed
    \/ SpawnReturn
    \/ ChildPreExec
    \/ ChildSetAttr
    \/ ChildStop
    \/ ChildCont
    \/ ChildExit
    \/ ChildKilled
    \/ handle_winch

Spec == Init /\ [][Next]_vars

-----------------------------------------------------------------------------
(* Navigation on its own: relative start paths and a symbolic link to its own
   directory, without spawn and resizes *)

InitNav ==
    /\ pc = "start"
    /\ path \in NavStartPaths
    /\ show_hidden = FALSE
    /\ sel = 0
    /\ ents = <<>>
    /\ ents_size = ENT_ALLOC_NUM
    /\ last_dir = NULL
    /\ fs = FsNav
    /\ tty = AllFlags
    /\ g_old_termios = {}
    /\ screen = MainScreen
    /\ outbuf = <<>>
    /\ g_row = 0
    /\ g_col = 0
    /\ hooked = FALSE
    /\ child = "none"
    /\ status = "none"
    /\ origAttrs = AllFlags
    /\ lastKey = "none"
    /\ fetched = FALSE
    /\ forkRes = "none"
    /\ hookRan = FALSE
    /\ rawEntered = FALSE
    /\ streak = NoStreak
    /\ cur_row = 1
    /\ handles = NoHandles

\* case 'l' when the strcat at lines 468-470 writes past the PATH_MAX bytes
\* malloc'ed for path: besides going on with the longer string (KeyEnter), the
\* process may die of the corrupted heap
KeyEnterCrash ==
    /\ Reading
    /\ n > 0
    /\ IsDirType(ents[sel + 1].type)
    /\ Len(EnterPath(path, ents[sel + 1].d_name)) + 1 > PATH_MAX
    /\ Len(EnterPath(path, ents[sel + 1].d_name)) <= MaxPathLen
    /\ lastKey' = "l"
    /\ streak' = NoStreak
    /\ forkRes' = "none"
    /\ fetched' = FALSE
    /\ path' = EnterPath(path, ents[sel + 1].d_name)
    /\ handles' = UseHandle(handles)
    /\ pc' = "killed"
    /\ outbuf' = <<>>
    /\ UNCHANGED <<show_hidden, sel, ents, ents_size, last_dir, fs, tty,
                   g_old_termios, screen, hookRan, cur_row>>
    /\ UNCHANGED KeyFrame

NextNav ==
    \/ Startup
    \/ StatusStringCrash
    \/ StatusStringAllocFail
    \/ StatusString
    \/ KeyUpDir
    \/ KeyHome
    \/ KeyRoot
    \/ KeyToggleHidden
    \/ KeyRefresh
    \/ KeyQuit
    \/ KeyOnEmpty
    \/ KeyOther
    \/ KeyDown
    \/ KeyUp
    \/ KeyTop
    \/ KeyBottom
    \/ KeyEnter
    \/ KeyEnterCrash
    \/ KeyDelete

SpecNav == InitNav /\ [][NextNav]_vars

-----------------------------------------------------------------------------
(* read_dir on its own: every directory content up to MaxMembers members *)

MaxMembers == 3

\* "." and ".." are directories; the other names take any file type
DotNames  == {<<".">>, <<".", ".">>}
FileNames == {<<".", "h">>, <<"B">>, <<"a">>, <<"a", "b">>}

\* what the two fstatat calls can report of a member
StatKinds ==
    { [fmt |-> "DIR",  xusr |-> TRUE,  to |-> "b",    statok |-> TRUE],
      [fmt |-> "LNK",  xusr |-> TRUE,  to |-> "root", statok |-> TRUE],
      [fmt |-> "LNK",  xusr |-> TRUE,  to |-> "none", statok |-> TRUE],
      [fmt |-> "REG",  xusr |-> TRUE,  to |-> "none", statok |-> TRUE],
      [fmt |-> "REG",  xusr |-> FALSE, to |-> "none", statok |-> TRUE],
      [fmt |-> "FIFO", xusr |-> TRUE,  to |-> "none", statok |-> TRUE],
      [fmt |-> "REG",  xusr |-> FALSE, to |-> "none", statok |-> FALSE] }

WithName(st, name) ==
    [name |-> name, fmt |-> st.fmt, xusr |-> st.xusr, to |-> st.to, statok |-> st.statok]

\* the directory contents: distinct names, at most MaxMembers of them
Contents ==
    UNION { UNION { { {WithName(st[nm], nm) : nm \in N} \cup
                      {Member(nm, "DIR", TRUE, "root") : nm \in D}
                      : st \in [N -> StatKinds] }
                    : N \in {X \in SUBSET FileNames :
                                Cardinality(X) + Cardinality(D) <= MaxMembers} }
            : D \in SUBSET DotNames }

InitRead ==
    /\ pc = "read"
    /\ path = <<"/">>
    /\ show_hidden \in BOOLEAN
    /\ sel = 0
    /\ ents = <<>>
    /\ ents_size = ENT_ALLOC_NUM
    /\ last_dir = NULL
    /\ \E c \in Contents : fs = [d \in DirIds |-> IF d = "root" THEN c ELSE {}]
    /\ tty = AllFlags
    /\ g_old_termios = {}
    /\ screen = MainScreen
    /\ outbuf = <<>>
    /\ g_row = 0
    /\ g_col = 0
    /\ hooked = FALSE
    /\ child = "none"
    /\ status = "none"
    /\ origAttrs = AllFlags
    /\ lastKey = "none"
    /\ fetched = FALSE
    /\ forkRes = "none"
    /\ hookRan = FALSE
    /\ rawEntered = FALSE
    /\ streak = NoStreak
    /\ cur_row = 1
    /\ handles = NoHandles

\* n = read_dir(path, &ents, &ents_size, &last_dir, show_hidden)
ReadStep ==
    /\ pc = "read"
    /\ LET dir == opendir(fs, path) IN
       \E allocOK \in BOOLEAN : \E order \in Orders(fs[dir]) :
          LET r == read_dir(fs, dir, ents_size, show_hidden, order, allocOK) IN
          /\ last_dir' = dir
          /\ handles' = OpenNew(CloseLast(handles, last_dir), dir)
          /\ ents' = r.ents
          /\ ents_size' = r.size
          /\ fetched' = TRUE
          /\ pc' = IF r.abort THEN "read_abort" ELSE "read_done"
    /\ UNCHANGED <<path, show_hidden, sel, fs, tty, g_old_termios, screen, outbuf,
                   g_row, g_col, hooked, child, status, origAttrs, lastKey,
                   forkRes, hookRan, rawEntered, streak, cur_row>>

NextRead == ReadStep

SpecRead == InitRead /\ [][NextRead]_vars

-----------------------------------------------------------------------------
(* Claims *)

\* C1: whenever the loop is about to read a key, 0 <= sel < n on a non-empty
\* Listing and sel = 0 on an empty one.
SelectionInRange ==
    pc = "getchar" => IF n > 0 THEN 0 <= sel /\ sel < n ELSE sel = 0

\* C1 witness: move-down or jump-bottom has put the selection on the last of
\* several entries.
SelectionAtLastEntry ==
    pc = "getchar" /\ n >= 2 /\ sel = n - 1 /\ lastKey \in {"j", "G"}

\* C2: once setup_terminal has succeeded, every end of the process has run
\* restore_terminal (the atexit hook).
RestoreOnEveryExit ==
    (pc \in {"exited", "killed"} /\ rawEntered) => hookRan

\* C3: the attributes restore_terminal writes back at shutdown are the ones the
\* terminal had when the program started.
OriginalAttrsAtShutdown ==
    (pc = "exited" /\ hookRan) => tty = origAttrs

\* C4: the resize handler only flags a pending re-query: no step of handle_winch
\* writes g_row or g_col.
HandlerLeavesGeometry ==
    [][handle_winch => UNCHANGED <<g_row, g_col>>]_vars

\* C5: in spawn the parent's restore_terminal and fflush are complete before the
\* child is created: while either is still to be done, no child exists.
RestoredBeforeChildCreated ==
    pc \in {"sp_restore", "sp_flush"} => child = "none"

\* C6: when fork fails, spawn returns with the terminal as it was: attributes,
\* screen modes, saved attributes and stdout buffer unchanged, and nothing waited
\* for. (The re-read that follows in main may still exit on a failed realloc.)
ForkFailureLeavesTerminal ==
    [][(pc = "getchar" /\ forkRes' = "failed")
         => /\ pc' \in {"getchar", "exited"}
            /\ child' = "none"
            /\ status' = status
            /\ g_old_termios' = g_old_termios
            /\ (pc' = "getchar" =>
                  tty' = tty /\ screen' = screen /\ outbuf' = outbuf)]_vars

\* C6 witness: fork failed on edit and the loop is back at getchar.
ForkFailedOnEdit ==
    pc = "getchar" /\ forkRes = "failed" /\ lastKey = "e" /\ IsRaw(tty) /\ screen.alt

MarksStale(c) ==
    \/ c \in {"h", "~", "/", ".", "r", "s"}
    \/ n > 0 /\ c \in {"e", "x"}
    \/ n > 0 /\ c = "l" /\ ents[sel + 1].type \in {"TYPE_DIR", "TYPE_SYML_TO_DIR"}

\* the names a read of path p on filesystem f shows with show_hidden hid
ShownNames(f, p, hid) ==
    IF opendir(f, p) = NULL THEN {}
    ELSE {m.name : m \in {x \in f[opendir(f, p)] :
            /\ x.name \notin {<<".">>, <<".", ".">>}
            /\ (hid \/ x.name[1] # ".")}}

\* C8: a loop iteration that arrives at the next key read has reset sel to 0 and
\* re-read the directory at the current path with the current show_hidden if its
\* key marked the Listing stale, and has read nothing otherwise.
StaleThenReread ==
    [][((pc = "getchar" /\ UNCHANGED <<g_row, g_col>>) \/ pc = "sp_setup")
        /\ pc' = "getchar"
         => IF MarksStale(lastKey')
            THEN /\ fetched'
                 /\ sel' = 0
                 /\ last_dir' = opendir(fs', path')
                 /\ {ents'[i].d_name : i \in 1..Len(ents')}
                      = ShownNames(fs', path', show_hidden')
                 /\ Len(ents') = Cardinality(ShownNames(fs', path', show_hidden'))
            ELSE /\ ~fetched'
                 /\ ents' = ents
                 /\ last_dir' = last_dir]_vars

\* C8 witness: edit ran a child to its end and the directory was re-read.
RereadAfterEdit ==
    pc = "getchar" /\ lastKey = "e" /\ forkRes = "ok" /\ fetched /\ sel = 0

\* byte-wise lexicographic order of two names
BytewiseLess(a, b) ==
    \E k \in 1..(Len(b)) :
        /\ \A i \in 1..(k - 1) : i <= Len(a) /\ a[i] = b[i]
        /\ (k > Len(a) \/ Byte(a[k]) < Byte(b[k]))

DirKind(e) == e.type \in {"TYPE_DIR", "TYPE_SYML_TO_DIR"}

\* C9: in the Listing read_dir returns, every Directory / SymlinkToDirectory
\* entry precedes every entry of another kind, and within each group the names
\* ascend byte-wise.
ListingOrdered ==
    pc = "read_done" =>
        \A i, j \in 1..Len(ents) :
            i < j => /\ (DirKind(ents[j]) => DirKind(ents[i]))
                     /\ (DirKind(ents[i]) = DirKind(ents[j])
                           => BytewiseLess(ents[i].d_name, ents[j].d_name))

\* C9 witness: a three-entry Listing whose leading directory-kind entry has a
\* name that sorts after a file's name.
DirectoryFirstDespiteName ==
    /\ pc = "read_done"
    /\ Len(ents) = 3
    /\ DirKind(ents[1])
    /\ ~DirKind(ents[2])
    /\ BytewiseLess(ents[2].d_name, ents[1].d_name)
    /\ BytewiseLess(ents[2].d_name, ents[3].d_name)

InListing(name) == \E i \in 1..Len(ents) : ents[i].d_name = name

\* C10: of the members that can be stat'ed, "." and ".." are never listed, a
\* name starting with a dot is listed iff show_hidden, any other name is listed.
HiddenIffShown ==
    pc = "read_done" =>
        \A m \in fs["root"] :
            m.statok =>
                (InListing(m.name) <=>
                    /\ m.name # <<".">>
                    /\ m.name # <<".", ".">>
                    /\ (m.name[1] = "." => show_hidden))

\* C10 witness: with show_hidden set, a directory holding "." and a dot file
\* lists the dot file.
DotFileShown ==
    /\ pc = "read_done"
    /\ show_hidden
    /\ \E m \in fs["root"] : m.name = <<".">>
    /\ \E m \in fs["root"] : m.name = <<".", "h">> /\ m.statok
    /\ InListing(<<".", "h">>)

\* the member of the listed directory an entry was read from
MemberOf(e) == CHOOSE m \in fs["root"] : m.name = e.d_name

\* the kind the specification gives a member: only a regular file can be
\* Executable
KindOf(m) ==
    CASE m.fmt = "DIR" -> "TYPE_DIR"
      [] m.fmt = "LNK" -> (IF Exists(fs, m.to) THEN "TYPE_SYML_TO_DIR" ELSE "TYPE_SYML")
      [] m.fmt = "REG" /\ m.xusr -> "TYPE_EXEC"
      [] OTHER -> "TYPE_NORM"

\* C11: every entry read_dir returns carries the specified kind of its member:
\* Directory, SymlinkToDirectory / Symlink by the followed stat, Executable for
\* a regular file with the owner-execute bit, Regular for anything else
\* (special files included, whatever their permission bits).
KindAsSpecified ==
    pc = "read_done" =>
        \A i \in 1..Len(ents) : ents[i].type = KindOf(MemberOf(ents[i]))

\* C12: 'l' on a selected entry that is neither Directory nor
\* SymlinkToDirectory changes neither path, sel, show_hidden nor the Listing,
\* and the loop goes back to getchar without a re-read. (A step that changes
\* g_row or g_col is the resize handler's, not a key's.)
EnterOnFileIsNoOp ==
    [][(pc = "getchar" /\ n > 0 /\ lastKey' = "l" /\ ~DirKind(ents[sel + 1])
          /\ UNCHANGED <<g_row, g_col>>)
         => /\ UNCHANGED <<path, sel, show_hidden, ents, last_dir, fs>>
            /\ pc' = "getchar"
            /\ ~fetched']_vars

\* C12 witness: 'l' was the last key, on the third entry of the root Listing (the
\* executable file ".h", after two directory-kind entries), and nothing was read.
EnterOnFileDidNothing ==
    /\ pc = "getchar"
    /\ lastKey = "l"
    /\ ~fetched
    /\ n = 3
    /\ sel = 2
    /\ ents[3].type = "TYPE_EXEC"
    /\ path = <<"/">>

\* C13: on a non-empty Listing 'j' sets sel to min(sel + 1, n - 1), 'k' to
\* max(sel - 1, 0), 'g' to 0 and 'G' to n - 1; path, show_hidden and the Listing
\* stay as they are and nothing is re-read. (A step that changes g_row or g_col
\* is the resize handler's, not a key's.)
MovesClampSelection ==
    [][(pc = "getchar" /\ n >= 1 /\ lastKey' \in {"j", "k", "g", "G"}
          /\ UNCHANGED <<g_row, g_col>>)
         => /\ sel' = CASE lastKey' = "j" -> (IF sel + 1 < n - 1 THEN sel + 1 ELSE n - 1)
                        [] lastKey' = "k" -> (IF sel - 1 > 0 THEN sel - 1 ELSE 0)
                        [] lastKey' = "g" -> 0
                        [] lastKey' = "G" -> n - 1
            /\ UNCHANGED <<path, show_hidden, ents, last_dir, fs>>
            /\ pc' = "getchar"
            /\ ~fetched']_vars

\* C13 witness: 'j' was the last key and the selection is on the last of three
\* entries.
MovedDownToLast ==
    pc = "getchar" /\ lastKey = "j" /\ n = 3 /\ sel = 2 /\ ~fetched

\* the members of the Listing's directory that carry the selected entry's name
SelectedMembers == {m \in fs[last_dir] : m.name = ents[sel + 1].d_name}

\* what one removal of the selected entry leaves in the Listing's directory: a
\* directory removal takes an empty directory only, a file removal takes
\* anything but a directory
AfterRemoval ==
    IF ents[sel + 1].type = "TYPE_DIR"
    THEN fs[last_dir] \ {m \in SelectedMembers : m.fmt = "DIR" /\ fs[m.to] = {}}
    ELSE fs[last_dir] \ {m \in SelectedMembers : m.fmt # "DIR"}

\* C14: 'x' on a non-empty Listing changes the filesystem by exactly one removal
\* of the selected entry in the directory last_dir is open on (a directory
\* removal iff the entry is typed TYPE_DIR, a file removal otherwise), touches no
\* other directory, and is followed by a re-read whether or not anything was
\* removed.
DeleteRemovesSelected ==
    [][(pc = "getchar" /\ n > 0 /\ lastKey' = "x")
         => /\ last_dir # NULL
            /\ fs'[last_dir] = AfterRemoval
            /\ \A d \in DirIds \ {last_dir} : fs'[d] = fs[d]
            /\ fetched'
            /\ path' = path]_vars

\* C14 witness: 'x' has removed the directory b from the root (after its file
\* was removed) while the symbolic link L, removed as a file elsewhere, is still
\* there, and the root was re-read.
DeletedEmptiedDirectory ==
    /\ pc = "getchar"
    /\ lastKey = "x"
    /\ fetched
    /\ fs["b"] = {}
    /\ {m.name : m \in fs["root"]} = {<<"L">>}
    /\ last_dir = "root"

\* C15: when the last two keys were both '.', the Listing (entries, kinds and
\* order) and show_hidden are what they were before the first of the two.
DoubleToggleRestores ==
    (pc = "getchar" /\ streak.n = 2)
        => ents = streak.ents /\ show_hidden = streak.hid

\* C15 witness: two '.' keys in a row in the root, whose Listing has two entries
\* without and three with hidden files, starting with hidden files shown.
ToggledTwiceInRoot ==
    /\ pc = "getchar"
    /\ streak.n = 2
    /\ lastKey = "."
    /\ path = <<"/">>
    /\ show_hidden
    /\ n = 3
    /\ Len(streak.ents) = 3

RECURSIVE Join(_)
\* the path string of a sequence of components
Join(cs) == IF cs = <<>> THEN <<>> ELSE <<"/">> \o Head(cs) \o Join(Tail(cs))

\* the components of p from the root, "." left out (relative paths start at Cwd,
\* the root)
FromRoot(p) == SelectSeq(Components(p, <<>>), LAMBDA c : c # <<".">>)

ParentPath(p) ==
    IF Len(FromRoot(p)) <= 1 THEN <<"/">>
    ELSE Join(SubSeq(FromRoot(p), 1, Len(FromRoot(p)) - 1))

\* C16: each 'h' replaces path by the absolute, normalized path of its parent
\* directory ("/" for the root itself), whatever path the program was started
\* with; so repeated 'h' ends at "/" and stays there.
UpDirGivesParent ==
    [][(pc = "getchar" /\ pc' = "getchar" /\ lastKey' = "h")
         => path' = ParentPath(path)]_vars

\* C18: 'l' on a directory-kind entry leaves path extended by the entry's name
\* as a new segment (one '/' between them, none added to the root "/"), and the
\* parent of the new path is the old one, so that 'h' leads back.
EnterAppendsSegment ==
    [][(pc = "getchar" /\ pc' = "getchar" /\ n > 0 /\ lastKey' = "l"
          /\ DirKind(ents[sel + 1]))
         => /\ path' = (IF path = <<"/">> THEN path ELSE Append(path, "/"))
                          \o ents[sel + 1].d_name
            /\ dirname(path') = path]_vars

\* C20: path, with its terminator, fits the PATH_MAX bytes allocated for it.
PathFitsBuffer == Len(path) + 1 <= PATH_MAX

\* C17: at most one DIR stream is open, it is the one last_dir points to, no
\* stream is closed twice or used after it was closed, the stream stays open
\* while the Listing has entries whose names can be read, and after a failed
\* opendir the Listing is empty (so no key uses last_dir).
HandleOwnedByListing ==
    /\ handles.open <= 1
    /\ ~handles.misuse
    /\ handles.live <=> last_dir # NULL
    /\ handles.open = IF last_dir # NULL THEN 1 ELSE 0
    /\ n > 0 => handles.live
    /\ last_dir = NULL => n = 0

\* C17 witness: opendir failed on a path that no longer exists after an earlier
\* Listing was replaced, and 'x' was then pressed on the empty Listing.
DeleteKeyAfterFailedOpen ==
    /\ pc = "getchar"
    /\ lastKey = "x"
    /\ last_dir = NULL
    /\ n = 0
    /\ handles.open = 0
    /\ fs # Fs0

\* C19: when the Listing fits the scroll region (1 <= n <= g_row - 3) the cursor
\* is on the selected entry's row, 3 + sel, after a full redraw and after each of
\* 'j', 'k', 'g', 'G' pressed while it was there. (A step that changes g_row or
\* g_col is the resize handler's, not a key's.)
CursorOnSelection ==
    [][(/\ pc' = "getchar"
        /\ UNCHANGED <<g_row, g_col>>
        /\ 1 <= Len(ents')
        /\ Len(ents') <= g_row' - 3
        /\ \/ fetched'
           \/ /\ pc = "getchar"
              /\ lastKey' \in {"j", "k", "g", "G"}
              /\ cur_row = 3 + sel)
         => cur_row' = 3 + sel']_vars

====
